---- MODULE Spec2Model ----
(***************************************************************************)
(* Model of the Ion parser (src/src/parser.rs): the character cursor, the  *)
(* value reader, the element producer Parser::next and the document        *)
(* builder Parser::read; the document model (src/src/ion) with its         *)
(* serializer, the section accessors and the lookups of Ion.               *)
(*                                                                         *)
(* A text is a sequence of one-character strings; a cursor is the 1-based  *)
(* index of the character Peekable::peek would return (Len+1 at the end).  *)
(* Option<T> is a sequence of length 0 (None) or 1 (Some).                 *)
(***************************************************************************)
EXTENDS Integers, Sequences, FiniteSets, TLC

VARIABLES
    toks,               \* the input as the list of fragments it is built of
    filter,             \* the accepted_sections argument of the constructor
    input,              \* Parser.input
    cur,                \* Parser.cur
    accepted_sections,  \* Parser.accepted_sections
    section_capacity,   \* Parser.section_capacity
    row_capacity,       \* Parser.row_capacity
    array_capacity,     \* Parser.array_capacity
    last_section,       \* Parser.last_section
    map,                \* read(): map
    cur_section,        \* read(): cur_section
    last_name,          \* read(): last_name
    pc,                 \* "read" while read() loops, "done" once it returned
    result,             \* what read() returned
    log,                \* history: headers met and elements produced
    previous,           \* what an earlier read() of the same run returned
    ret                 \* the last call on the document model and its return

vars == <<toks, filter, input, cur, accepted_sections, section_capacity,
          row_capacity, array_capacity, last_section, map, cur_section,
          last_name, pc, result, log, previous, ret>>

----------------------------------------------------------------------------
(* Bounds *)

MaxFrags == 3
MaxAccepted == 2

----------------------------------------------------------------------------
(* Characters and strings *)

EOF == ""

Lower == {"a","b","c","d","e","f","g","h","i","j","k","l","m",
          "n","o","p","q","r","s","t","u","v","w","x","y","z"}
Upper == {"A","B","C","D","E","F","G","H","I","J","K","L","M",
          "N","O","P","Q","R","S","T","U","V","W","X","Y","Z"}
Digits == {"0","1","2","3","4","5","6","7","8","9"}

is_digit(c) == c \in Digits

KeyChars == Lower \cup Upper \cup Digits \cup {"_", "-"}

\* char::is_whitespace, as used by str::trim_end
White_Space == {" ", "\t", "\n", "\r", "\f"}

Str_root == <<"r","o","o","t">>
Str_unknown == <<"u","n","k","n","o","w","n">>
Str_true == <<"t","r","u","e">>
Str_false == <<"f","a","l","s","e">>

Slice(s, from, to) == SubSeq(s, from, to)

Peek(s, p) == IF p <= Len(s) THEN s[p] ELSE EOF

Adv(s, p) == IF p <= Len(s) THEN p + 1 ELSE p

RECURSIVE Find(_, _, _)
Find(s, p, ch) ==
    IF p > Len(s) THEN 0
    ELSE IF s[p] = ch THEN p
    ELSE Find(s, p + 1, ch)

starts_with(s, p, lit) ==
    /\ p + Len(lit) - 1 <= Len(s)
    /\ Slice(s, p, p + Len(lit) - 1) = lit

RECURSIVE trim_end(_)
trim_end(str) ==
    IF str # <<>> /\ str[Len(str)] \in White_Space
    THEN trim_end(Slice(str, 1, Len(str) - 1))
    ELSE str

RECURSIVE Flatten(_)
Flatten(ss) == IF ss = <<>> THEN <<>> ELSE Head(ss) \o Flatten(Tail(ss))

Range(f) == {f[i] : i \in DOMAIN f}

----------------------------------------------------------------------------
(* Values, sections, errors *)

VString(str) == [t |-> "String", s |-> str, f |-> <<>>, b |-> FALSE,
                 items |-> <<>>, dict |-> {}]
VInteger(ds) == [t |-> "Integer", s |-> ds, f |-> <<>>, b |-> FALSE,
                 items |-> <<>>, dict |-> {}]
VFloat(ds, fs) == [t |-> "Float", s |-> ds, f |-> fs, b |-> FALSE,
                   items |-> <<>>, dict |-> {}]
VBoolean(v) == [t |-> "Boolean", s |-> <<>>, f |-> <<>>, b |-> v,
                items |-> <<>>, dict |-> {}]
VArray(row) == [t |-> "Array", s |-> <<>>, f |-> <<>>, b |-> FALSE,
                items |-> row, dict |-> {}]
VDictionary(d) == [t |-> "Dictionary", s |-> <<>>, f |-> <<>>, b |-> FALSE,
                   items |-> <<>>, dict |-> d]

\* BTreeMap as the set of its (key, value) pairs, keys unique
BTreeMap_new == {}
BTreeMap_keys(m) == {e.k : e \in m}
BTreeMap_get(m, key) == CHOOSE e \in m : e.k = key
BTreeMap_insert(m, key, val) ==
    {e \in m : e.k # key} \cup {[k |-> key, v |-> val]}

\* usize and i64 values are written as their decimal digits
Default_section_capacity == <<"1","6">>
Default_row_capacity == <<"8">>
Default_array_capacity == <<"2">>

ISIZE_MAX == <<"9","2","2","3","3","7","2","0","3","6","8","5","4","7","7","5","8","0","7">>
USIZE_MAX == <<"1","8","4","4","6","7","4","4","0","7","3","7","0","9","5","5","1","6","1","5">>

DigitSeq == <<"0","1","2","3","4","5","6","7","8","9">>
DigitVal(c) == CHOOSE i \in 0..9 : DigitSeq[i + 1] = c

\* a > b for digit strings of equal length
RECURSIVE DigitsGreater(_, _)
DigitsGreater(a, b) ==
    IF a = <<>> THEN FALSE
    ELSE IF a[1] # b[1] THEN DigitVal(a[1]) > DigitVal(b[1])
    ELSE DigitsGreater(Tail(a), Tail(b))

\* Vec::with_capacity(n) panics with "capacity overflow" when n elements
\* take more than isize::MAX bytes; an element takes at least one byte
capacity_overflow(n) ==
    \/ Len(n) > Len(ISIZE_MAX)
    \/ Len(n) = Len(ISIZE_MAX) /\ DigitsGreater(n, ISIZE_MAX)

\* Vec::with_capacity(n) where it returns: the empty vector
Vec_with_capacity(n) == <<>>

Section_with_capacity ==
    [dictionary |-> BTreeMap_new, rows |-> Vec_with_capacity(section_capacity)]

NoErr == [section |-> <<>>, desc |-> ""]

\* the panic of Vec::with_capacity, carried up the call chain like an error
\* (no caller catches either)
Panic_capacity_overflow == [section |-> <<>>, desc |-> "capacity overflow"]

\* mutant: the error forgets the section that was read last
create_error_unknown(ls, message) ==
    [section |-> Str_unknown, desc |-> message]

create_error(ls, message) ==
    [section |-> IF ls = <<>> THEN Str_unknown ELSE ls[1], desc |-> message]

\* Result<Option<Value>, ParserError> together with the cursor afterwards
ROk(v, p) == [st |-> "some", val |-> <<v>>, pos |-> p, err |-> NoErr]
RNone(p) == [st |-> "none", val |-> <<>>, pos |-> p, err |-> NoErr]
RErr(e, p) == [st |-> "err", val |-> <<>>, pos |-> p, err |-> e]

----------------------------------------------------------------------------
(* Scanner *)

RECURSIVE ws(_, _)
ws(s, p) == IF Peek(s, p) \in {"\t", " "} THEN ws(s, p + 1) ELSE p

newline(s, p) ==
    CASE Peek(s, p) = "\n" -> [ok |-> TRUE, pos |-> p + 1]
      [] Peek(s, p) = "\r" ->
            [ok |-> TRUE,
             pos |-> IF Peek(s, p + 1) = "\n" THEN p + 2 ELSE p + 1]
      [] OTHER -> [ok |-> FALSE, pos |-> p]

skip_line(s, p) ==
    LET nl == Find(s, p, "\n")
    IN  IF nl = 0 THEN Len(s) + 1 ELSE nl + 1

eat(s, p, ch) ==
    IF Peek(s, p) = ch THEN [ok |-> TRUE, pos |-> p + 1]
    ELSE [ok |-> FALSE, pos |-> p]

expect(s, p, ch) == eat(s, p, ch)

slice_to_inc(s, p, ch) ==
    IF p > Len(s) THEN [some |-> FALSE, str |-> <<>>, pos |-> p]
    ELSE IF s[p] = ch THEN [some |-> TRUE, str |-> Slice(s, p, p), pos |-> p + 1]
    ELSE LET end == Find(s, p + 1, ch)
         IN  IF end = 0
             THEN [some |-> TRUE, str |-> Slice(s, p, Len(s)), pos |-> Len(s) + 1]
             ELSE [some |-> TRUE, str |-> Slice(s, p, end), pos |-> end + 1]

slice_to_exc(s, p, ch) ==
    IF p > Len(s) THEN [some |-> FALSE, str |-> <<>>, pos |-> p]
    ELSE IF s[p] = ch THEN [some |-> TRUE, str |-> <<>>, pos |-> p + 1]
    ELSE LET end == Find(s, p + 1, ch)
         IN  IF end = 0
             THEN [some |-> TRUE, str |-> Slice(s, p, Len(s)), pos |-> Len(s) + 1]
             ELSE [some |-> TRUE, str |-> Slice(s, p, end - 1), pos |-> end + 1]

RECURSIVE WhileEnd(_, _, _)
WhileEnd(s, p, predicate) ==
    IF p <= Len(s) /\ s[p] \in predicate THEN WhileEnd(s, p + 1, predicate) ELSE p

slice_while(s, p, predicate) ==
    IF p > Len(s) \/ s[p] \notin predicate
    THEN [some |-> FALSE, str |-> <<>>, pos |-> p]
    ELSE LET end == WhileEnd(s, p + 1, predicate)
         IN  [some |-> TRUE, str |-> Slice(s, p, end - 1), pos |-> end]

\* mutant: the '#' is seen but not consumed, nor the line after it
comment_peeks(s, p) ==
    IF Peek(s, p) = "#" THEN [some |-> TRUE, str |-> <<>>, pos |-> p]
    ELSE [some |-> FALSE, str |-> <<>>, pos |-> p]

comment(s, p) ==
    LET e == eat(s, p, "#")
    IN  IF ~e.ok THEN [some |-> FALSE, str |-> <<>>, pos |-> p]
        ELSE LET sl == slice_to_inc(s, e.pos, "\n")
             IN  [some |-> TRUE, str |-> sl.str, pos |-> sl.pos]

section_name(s, p) ==
    LET p1 == ws(s, eat(s, p, "[").pos)
        end == Find(s, p1, "]")
        retval == IF end = 0 THEN Slice(s, p1, Len(s)) ELSE Slice(s, p1, end - 1)
    IN  [name |-> retval,
         pos |-> IF end = 0 THEN Len(s) + 1 ELSE end + 1,
         last_section |-> <<retval>>]

key_name(s, p) == slice_while(s, p, KeyChars)

keyval_sep(s, p) ==
    LET e == expect(s, ws(s, p), "=")
    IN  IF ~e.ok THEN [ok |-> FALSE, pos |-> e.pos]
        ELSE [ok |-> TRUE, pos |-> ws(s, e.pos)]

integer(s, p) == slice_while(s, p, Digits)

----------------------------------------------------------------------------
(* Value reader *)

I64_MAX == <<"9","2","2","3","3","7","2","0","3","6","8","5","4","7","7","5","8","0","7">>

RECURSIVE StripLeadingZeros(_)
StripLeadingZeros(ds) ==
    IF Len(ds) > 1 /\ ds[1] = "0" THEN StripLeadingZeros(Tail(ds)) ELSE ds

RECURSIVE StripTrailingZeros(_)
StripTrailingZeros(ds) ==
    IF ds # <<>> /\ ds[Len(ds)] = "0"
    THEN StripTrailingZeros(Slice(ds, 1, Len(ds) - 1))
    ELSE ds

\* mutant: a number that does not fit saturates at i64::MAX
parse_i64_saturating(ds) ==
    LET canon == StripLeadingZeros(ds)
    IN  IF \/ Len(canon) > Len(I64_MAX)
           \/ Len(canon) = Len(I64_MAX) /\ DigitsGreater(canon, I64_MAX)
        THEN [ok |-> TRUE, digits |-> I64_MAX]
        ELSE [ok |-> TRUE, digits |-> canon]

\* str::parse::<i64> of a non-empty digit run: the number, or PosOverflow
parse_i64(ds) ==
    LET canon == StripLeadingZeros(ds)
    IN  IF \/ Len(canon) > Len(I64_MAX)
           \/ Len(canon) = Len(I64_MAX) /\ DigitsGreater(canon, I64_MAX)
        THEN [ok |-> FALSE, digits |-> <<>>]
        ELSE [ok |-> TRUE, digits |-> canon]

\* str::parse::<f64> of "<prefix>.<decimal>": the decimal number it denotes
parse_f64(prefix, decimal) ==
    VFloat(StripLeadingZeros(prefix), StripTrailingZeros(decimal))

number(s, p, ls) ==
    LET prefix == integer(s, p)
    IN  IF ~prefix.some THEN RNone(p)
        ELSE LET dot == eat(s, prefix.pos, ".")
                 decimal == integer(s, dot.pos)
             IN  IF dot.ok
                 THEN ROk(parse_f64(prefix.str, decimal.str), decimal.pos)
                 ELSE LET n == parse_i64(prefix.str)
                      IN  IF n.ok THEN ROk(VInteger(n.digits), prefix.pos)
                          ELSE RErr(create_error(ls,
                                   "number too large to fit in target type"),
                                   prefix.pos)

boolean(s, start, ls) ==
    IF starts_with(s, start, Str_true) THEN ROk(VBoolean(TRUE), start + 4)
    ELSE IF starts_with(s, start, Str_false) THEN ROk(VBoolean(FALSE), start + 5)
    ELSE RNone(start)

\* mutant: a string without its closing quote is an error
finish_string_strict(s, p, ls) ==
    LET start == Adv(s, p)
        close == Find(s, start, "\"")
    IN  IF close = 0
        THEN RErr(create_error(ls, "Cannot finish string"), Len(s) + 1)
        ELSE ROk(VString(Slice(s, start, close - 1)), close + 1)

finish_string(s, p, ls) ==
    LET sl == slice_to_exc(s, Adv(s, p), "\"")
    IN  IF sl.some THEN ROk(VString(sl.str), sl.pos)
        ELSE RErr(create_error(ls, "Cannot finish string"), sl.pos)

\* where value() looks for the first character of the value
value_start(s, p) == ws(s, newline(s, ws(s, p)).pos)

RECURSIVE value(_, _, _)
RECURSIVE array_loop(_, _, _, _)
RECURSIVE dictionary_loop(_, _, _, _)
RECURSIVE entry(_, _, _)

finish_array(s, p, ls) ==
    IF capacity_overflow(array_capacity)
    THEN RErr(Panic_capacity_overflow, Adv(s, p))
    ELSE array_loop(s, Adv(s, p), ls, Vec_with_capacity(array_capacity))

finish_dictionary(s, p, ls) == dictionary_loop(s, Adv(s, p), ls, BTreeMap_new)

\* the match of value() on the character at p1
value_at(s, p1, ls) ==
    CASE Peek(s, p1) = "\"" -> finish_string(s, p1, ls)
      [] Peek(s, p1) = "[" -> finish_array(s, p1, ls)
      [] Peek(s, p1) = "{" -> finish_dictionary(s, p1, ls)
      [] is_digit(Peek(s, p1)) -> number(s, p1, ls)
      [] Peek(s, p1) \in {"t", "f"} -> boolean(s, p1, ls)
      [] OTHER -> RErr(create_error(ls, "Cannot read a value"), p1)

value(s, p, ls) == value_at(s, value_start(s, p), ls)

\* finish_array: what the loop does with the element v it read
array_push(s, ls, row, v) ==
    CASE v.st = "err" -> v
      [] v.st = "some" -> array_loop(s, v.pos, ls, Append(row, v.val[1]))
      [] OTHER -> RErr(create_error(ls, "Cannot finish an array"), v.pos)

\* finish_array: one turn of the loop, the blanks skipped
array_at(s, p1, ls, row) ==
    CASE Peek(s, p1) = EOF ->
            RErr(create_error(ls, "Cannot finish an array"), p1)
      [] Peek(s, p1) = "]" -> ROk(VArray(row), p1 + 1)
      [] Peek(s, p1) = "," -> array_loop(s, p1 + 1, ls, row)
      [] OTHER -> array_push(s, ls, row, value(s, p1, ls))

array_loop(s, p, ls, row) == array_at(s, ws(s, p), ls, row)

\* finish_dictionary: what the loop does with the entry e it read
dictionary_put(s, ls, m, e) ==
    CASE e.st = "err" -> RErr(e.err, e.pos)
      [] e.st = "some" ->
            dictionary_loop(s, e.pos, ls, BTreeMap_insert(m, e.key, e.val[1]))
      [] OTHER -> RErr(create_error(ls, "Wrong entry of a dictionary"), e.pos)

\* finish_dictionary: one turn of the loop, the blanks skipped
dictionary_at(s, p1, ls, m) ==
    CASE Peek(s, p1) = EOF ->
            RErr(create_error(ls, "Cannot finish a dictionary"), p1)
      [] Peek(s, p1) = "}" -> ROk(VDictionary(m), p1 + 1)
      [] Peek(s, p1) = "," -> dictionary_loop(s, p1 + 1, ls, m)
      [] Peek(s, p1) = "\n" -> dictionary_loop(s, p1 + 1, ls, m)
      [] OTHER -> dictionary_put(s, ls, m, entry(s, p1, ls))

dictionary_loop(s, p, ls, m) == dictionary_at(s, ws(s, p), ls, m)

\* Result<Option<Element::Entry>, ParserError>; vpos is where its value starts
EntryResult(st, key, val, p, err, vpos) ==
    [st |-> st, key |-> key, val |-> val, pos |-> p, err |-> err, vpos |-> vpos]

\* entry: the value v read after the separator
entry_value(key, v, vpos) == EntryResult(v.st, key.str, v.val, v.pos, v.err, vpos)

\* entry: after keyval_sep
entry_sep(s, ls, key, sep) ==
    IF ~sep.ok
    THEN EntryResult("err", key.str, <<>>, sep.pos,
                     create_error(ls, "Expected the '=' key value separator"), 0)
    ELSE entry_value(key, value(s, sep.pos, ls), value_start(s, sep.pos))

\* entry: after key_name
entry_key(s, p, ls, key) ==
    IF ~key.some THEN EntryResult("none", <<>>, <<>>, p, NoErr, 0)
    ELSE entry_sep(s, ls, key, keyval_sep(s, key.pos))

entry(s, p, ls) == entry_key(s, p, ls, key_name(s, p))

----------------------------------------------------------------------------
(* Element producer *)

cell(s, p) ==
    LET sl == slice_to_exc(s, ws(s, p), "|")
    IN  [str |-> IF sl.some THEN trim_end(sl.str) ELSE <<>>, pos |-> sl.pos]

RECURSIVE row_loop(_, _, _)

\* row: the cell ce read, pushed as a string
row_push(s, r, ce) == row_loop(s, ce.pos, Append(r, VString(ce.str)))

\* row: one turn of the loop, the blanks skipped
row_at(s, p1, r) ==
    IF comment(s, p1).some THEN [row |-> r, pos |-> comment(s, p1).pos]
    ELSE IF newline(s, p1).ok THEN [row |-> r, pos |-> newline(s, p1).pos]
    ELSE IF Peek(s, p1) = EOF THEN [row |-> r, pos |-> p1]
    ELSE row_push(s, r, cell(s, p1))

row_loop(s, p, r) == row_at(s, ws(s, p), r)

row(s, p) == row_loop(s, eat(s, p, "|").pos, Vec_with_capacity(row_capacity))

swap_remove(v, idx) ==
    IF idx = Len(v) THEN Slice(v, 1, Len(v) - 1)
    ELSE Slice([v EXCEPT ![idx] = v[Len(v)]], 1, Len(v) - 1)

\* mutant: a matched name stays in the working set
is_section_accepted_keeps_name(acc, name) ==
    IF acc = <<>> THEN [dec |-> "accept", acc |-> acc]
    ELSE IF acc[1] = <<>> THEN [dec |-> "stop", acc |-> acc]
    ELSE IF \E i \in DOMAIN acc[1] : acc[1][i] = name
         THEN [dec |-> "accept", acc |-> acc]
         ELSE [dec |-> "reject", acc |-> acc]

\* mutant: an empty working set rejects the header instead of stopping
is_section_accepted_never_stops(acc, name) ==
    IF acc = <<>> THEN [dec |-> "accept", acc |-> acc]
    ELSE IF \E i \in DOMAIN acc[1] : acc[1][i] = name
         THEN LET idx == CHOOSE i \in DOMAIN acc[1] :
                            /\ acc[1][i] = name
                            /\ \A j \in 1..(i - 1) : acc[1][j] # name
              IN  [dec |-> "accept", acc |-> <<swap_remove(acc[1], idx)>>]
         ELSE [dec |-> "reject", acc |-> acc]

\* mutant: a name that is not in the working set is accepted all the same
is_section_accepted_accepts_all(acc, name) ==
    IF acc = <<>> THEN [dec |-> "accept", acc |-> acc]
    ELSE IF acc[1] = <<>> THEN [dec |-> "stop", acc |-> acc]
    ELSE IF \E i \in DOMAIN acc[1] : acc[1][i] = name
         THEN LET idx == CHOOSE i \in DOMAIN acc[1] :
                            /\ acc[1][i] = name
                            /\ \A j \in 1..(i - 1) : acc[1][j] # name
              IN  [dec |-> "accept", acc |-> <<swap_remove(acc[1], idx)>>]
         ELSE [dec |-> "accept", acc |-> acc]

\* Option<bool>: "accept" is Some(true), "reject" Some(false), "stop" None
is_section_accepted(acc, name) ==
    IF acc = <<>> THEN [dec |-> "accept", acc |-> acc]
    ELSE LET sections == acc[1]
         IN  IF sections = <<>> THEN [dec |-> "stop", acc |-> acc]
             ELSE IF \E i \in DOMAIN sections : sections[i] = name
             THEN LET idx == CHOOSE i \in DOMAIN sections :
                                /\ sections[i] = name
                                /\ \A j \in 1..(i - 1) : sections[j] # name
                  IN  [dec |-> "accept", acc |-> <<swap_remove(sections, idx)>>]
             ELSE [dec |-> "reject", acc |-> acc]

\* one record of the history: a header met by next(), or what next() returned
Event(kind, at, name, vals, before, vpos, end) ==
    [kind |-> kind, at |-> at, name |-> name, vals |-> vals,
     before |-> before, vpos |-> vpos, end |-> end]

\* what next() returned, the parser fields it left, and the headers it met
Outcome(kind, why, at, name, vals, vpos, p, acc, ls, err, hdrs) ==
    [kind |-> kind, why |-> why, at |-> at, name |-> name, vals |-> vals,
     vpos |-> vpos, pos |-> p, acc |-> acc, ls |-> ls, err |-> err,
     hdrs |-> hdrs]

\* next(): the element an entry result e amounts to
entry_outcome(e, p1, acc, ls, hdrs) ==
    CASE e.st = "some" ->
            Outcome("Entry", "", p1, e.key, e.val, e.vpos, e.pos, acc, ls,
                    NoErr, hdrs)
      [] e.st = "err" ->
            Outcome("Err", "", p1, e.key, <<>>, e.vpos, e.pos, acc, ls, e.err,
                    hdrs)
      [] OTHER ->
            Outcome("None", "noelem", p1, e.key, <<>>, e.vpos, e.pos, acc, ls,
                    NoErr, hdrs)

row_outcome(r, p1, acc, ls, hdrs) ==
    IF capacity_overflow(row_capacity)
    THEN Outcome("Err", "", p1, <<>>, <<>>, 0, p1, acc, ls,
                 Panic_capacity_overflow, hdrs)
    ELSE Outcome("Row", "", p1, <<>>, r.row, 0, r.pos, acc, ls, NoErr, hdrs)

comment_outcome(cm, p1, acc, ls, hdrs) ==
    Outcome("Comment", "", p1, cm.str, <<>>, 0, cm.pos, acc, ls, NoErr, hdrs)

RECURSIVE next_loop(_, _, _, _, _, _)

\* next(): the header sn was read at p1 and the filter decided d
header_outcome(s, p1, sn, d, h) ==
    CASE d.dec = "accept" ->
            Outcome("Section", "", p1, sn.name, <<>>, 0, sn.pos, d.acc,
                    sn.last_section, NoErr, h)
      [] d.dec = "stop" ->
            Outcome("None", "early", p1, <<>>, <<>>, 0, sn.pos, d.acc,
                    sn.last_section, NoErr, h)
      [] OTHER ->
            next_loop(s, skip_line(s, sn.pos), d.acc, sn.last_section, FALSE, h)

header(s, p1, sn, acc, hdrs) ==
    header_outcome(s, p1, sn, is_section_accepted(acc, sn.name),
                   Append(hdrs, Event("Header", p1, sn.name, <<>>, acc, 0, sn.pos)))

\* next(): one turn of the loop, the blanks skipped
next_at(s, p1, acc, ls, is_accepted, hdrs) ==
    IF newline(s, p1).ok
    THEN next_loop(s, newline(s, p1).pos, acc, ls, is_accepted, hdrs)
    ELSE IF Peek(s, p1) = EOF
    THEN Outcome("None", "eof", p1, <<>>, <<>>, 0, p1, acc, ls, NoErr, hdrs)
    ELSE IF Peek(s, p1) = "["
    THEN header(s, p1, section_name(s, p1), acc, hdrs)
    ELSE IF ~is_accepted
    THEN next_loop(s, skip_line(s, p1), acc, ls, is_accepted, hdrs)
    ELSE CASE Peek(s, p1) = "|" -> row_outcome(row(s, p1), p1, acc, ls, hdrs)
           [] Peek(s, p1) = "#" ->
                comment_outcome(comment(s, p1), p1, acc, ls, hdrs)
           [] OTHER -> entry_outcome(entry(s, p1, ls), p1, acc, ls, hdrs)

next_loop(s, p, acc, ls, is_accepted, hdrs) ==
    next_at(s, ws(s, p), acc, ls, is_accepted, hdrs)

next(s, p, acc, ls) == next_loop(s, p, acc, ls, TRUE, <<>>)

----------------------------------------------------------------------------
(* Serializer: impl Display for Value, Section and Ion *)

\* the characters in the order of their code points, which is the order of
\* str and the iteration order of a BTreeMap<String, _>
CharOrder ==
    <<"\t", "\n", "\r", " ", "\"", "#", ",", "-", ".">> \o DigitSeq \o
    <<"=", "A", "B", "C", "D", "E", "F", "G", "H", "I", "J", "K", "L", "M",
      "N", "O", "P", "Q", "R", "S", "T", "U", "V", "W", "X", "Y", "Z",
      "[", "\\", "]", "_",
      "a", "b", "c", "d", "e", "f", "g", "h", "i", "j", "k", "l", "m",
      "n", "o", "p", "q", "r", "s", "t", "u", "v", "w", "x", "y", "z",
      "{", "|", "}", "U+00E9", "U+20AC">>

CharCode(c) == CHOOSE i \in DOMAIN CharOrder : CharOrder[i] = c

\* a < b for strings
RECURSIVE str_lt(_, _)
str_lt(a, b) ==
    IF b = <<>> THEN FALSE
    ELSE IF a = <<>> THEN TRUE
    ELSE IF a[1] # b[1] THEN CharCode(a[1]) < CharCode(b[1])
    ELSE str_lt(Tail(a), Tail(b))

\* the keys of a BTreeMap in iteration order
RECURSIVE BTreeMap_iter(_)
BTreeMap_iter(ks) ==
    IF ks = {} THEN <<>>
    ELSE LET least == CHOOSE x \in ks : \A y \in ks : x = y \/ str_lt(x, y)
         IN  <<least>> \o BTreeMap_iter(ks \ {least})

\* Value::String with the alternate flag: what is written for one character
fmt_char_alternate(c) ==
    CASE c = "\\" -> <<"\\", "\\">>
      [] c = "\n" -> <<"\\", "n">>
      [] c = "\"" -> <<"\\", "\"">>
      [] OTHER -> <<c>>

RECURSIVE fmt_chars_alternate(_)
fmt_chars_alternate(v) ==
    IF v = <<>> THEN <<>>
    ELSE fmt_char_alternate(Head(v)) \o fmt_chars_alternate(Tail(v))

\* Value::String without the flag: the loop over v.chars() with its
\* escaping state
RECURSIVE fmt_chars_plain(_, _)
fmt_chars_plain(v, escaping) ==
    IF v = <<>> THEN <<>>
    ELSE LET c == Head(v)
         IN  CASE ~escaping /\ c = "\\" -> <<"\\">> \o fmt_chars_plain(Tail(v), TRUE)
               [] ~escaping /\ c = "\n" -> <<"\\", "n">> \o fmt_chars_plain(Tail(v), FALSE)
               [] ~escaping /\ c = "\t" -> <<"\\", "t">> \o fmt_chars_plain(Tail(v), FALSE)
               [] ~escaping /\ c = "|" -> <<"\\", "|">> \o fmt_chars_plain(Tail(v), FALSE)
               [] escaping /\ c = "\\" -> <<"\\">> \o fmt_chars_plain(Tail(v), FALSE)
               [] escaping /\ c = "n" -> <<"\\", "n">> \o fmt_chars_plain(Tail(v), FALSE)
               [] escaping /\ c = "t" -> <<"\\", "t">> \o fmt_chars_plain(Tail(v), FALSE)
               [] escaping /\ c = "|" -> <<"\\", "|">> \o fmt_chars_plain(Tail(v), FALSE)
               [] OTHER -> <<c>> \o fmt_chars_plain(Tail(v), FALSE)

\* Display of f64: the shortest decimal that reads back as the same number,
\* without a fraction when the number is whole
fmt_f64(v) == IF v.f = <<>> THEN v.s ELSE v.s \o <<".">> \o v.f

RECURSIVE fmt_Value(_, _)
RECURSIVE fmt_items(_, _)
RECURSIVE fmt_dict(_, _, _)

\* the elements of an array, ", " between them
fmt_items(v, i) ==
    IF i > Len(v) THEN <<>>
    ELSE (IF i = 1 THEN <<>> ELSE <<",", " ">>)
         \o fmt_Value(v[i], TRUE) \o fmt_items(v, i + 1)

\* the entries of a dictionary in key order, ", " between them
fmt_dict(d, ks, i) ==
    IF i > Len(ks) THEN <<>>
    ELSE (IF i = 1 THEN <<>> ELSE <<",", " ">>)
         \o ks[i] \o <<" ", "=", " ">>
         \o fmt_Value(BTreeMap_get(d, ks[i]).v, TRUE) \o fmt_dict(d, ks, i + 1)

fmt_Value(v, alternate) ==
    CASE v.t = "String" ->
            IF alternate
            THEN <<"\"">> \o fmt_chars_alternate(v.s) \o <<"\"">>
            ELSE fmt_chars_plain(v.s, FALSE)
      [] v.t = "Integer" -> v.s
      [] v.t = "Float" -> fmt_f64(v)
      [] v.t = "Boolean" -> IF v.b THEN Str_true ELSE Str_false
      [] v.t = "Array" -> <<"[", " ">> \o fmt_items(v.items, 1) \o <<" ", "]">>
      [] OTHER ->
            <<"{", " ">> \o fmt_dict(v.dict, BTreeMap_iter(BTreeMap_keys(v.dict)), 1)
            \o <<" ", "}">>

\* the "k = v" lines of a section
RECURSIVE fmt_entries(_, _, _)
fmt_entries(d, ks, i) ==
    IF i > Len(ks) THEN <<>>
    ELSE ks[i] \o <<" ", "=", " ">> \o fmt_Value(BTreeMap_get(d, ks[i]).v, TRUE)
         \o <<"\n">> \o fmt_entries(d, ks, i + 1)

\* the "| cell " pieces of a row
RECURSIVE fmt_cells(_, _)
fmt_cells(cells, i) ==
    IF i > Len(cells) THEN <<>>
    ELSE <<"|", " ">> \o fmt_Value(cells[i], FALSE) \o <<" ">>
         \o fmt_cells(cells, i + 1)

RECURSIVE fmt_rows(_, _)
fmt_rows(rows, i) ==
    IF i > Len(rows) THEN <<>>
    ELSE fmt_cells(rows[i], 1) \o <<"|", "\n">> \o fmt_rows(rows, i + 1)

fmt_Section(section) ==
    fmt_entries(section.dictionary,
                BTreeMap_iter(BTreeMap_keys(section.dictionary)), 1)
    \o fmt_rows(section.rows, 1)

RECURSIVE fmt_sections(_, _, _)
fmt_sections(sections, names, i) ==
    IF i > Len(names) THEN <<>>
    ELSE <<"[">> \o names[i] \o <<"]", "\n">>
         \o fmt_Section(BTreeMap_get(sections, names[i]).v) \o <<"\n">>
         \o fmt_sections(sections, names, i + 1)

fmt_Ion(sections) ==
    fmt_sections(sections, BTreeMap_iter(BTreeMap_keys(sections)), 1)

----------------------------------------------------------------------------
(* Inputs *)

F_A == <<"[","A","]","\n">>
F_B == <<"[","B","]","\n">>
F_k1 == <<"k","=","1","\n">>
F_k2 == <<"k","=","2","\n">>
F_row == <<"|","a","|","\n">>
F_cmt == <<"#","c","\n">>
F_bad == <<"k","=","\n">>
F_nokey == <<"=","\n">>

F_kq == <<"k","=","\"">>
F_a == <<"a">>
F_q == <<"\"">>
F_nl == <<"\n">>
F_ka == <<"k","=","[">>
F_kd == <<"k","=","{">>
F_ja == <<"j","=","[">>
F_j1 == <<"j","=","1">>
F_1 == <<"1">>
F_c == <<",">>
F_ca == <<"]">>
F_cd == <<"}">>
F_k == <<"k","\n">>

DocFrags == {F_A, F_B, F_k1, F_k2, F_row, F_cmt, F_bad, F_nokey}

ValFrags == {F_A, F_kq, F_a, F_q, F_nl, F_ka, F_kd, F_ja, F_j1, F_1, F_c,
             F_ca, F_cd, F_k}

Names == {<<"A">>, <<"B">>}

SeqsUpTo(S, n) == UNION {[1..m -> S] : m \in 0..n}

\* None, or Some(list) for every list of names up to MaxAccepted
Filters == {<<>>} \cup {<<l>> : l \in SeqsUpTo(Names, MaxAccepted)}

----------------------------------------------------------------------------
(* Parser::new / new_filtered, then read() *)

\* a call on the document model: its name, its argument, the Option or
\* Result it returned (val, err), the text or the rows it returned (text),
\* the document before it
Call(op, key, val, err, text, before) ==
    [op |-> op, key |-> key, val |-> val, err |-> err, text |-> text,
     before |-> before]

NoCall == Call("none", <<>>, <<>>, <<>>, <<>>, {})

InitParser(frags, filters) ==
    /\ toks \in frags
    /\ input = Flatten(toks)
    /\ cur = 1
    /\ filter \in filters
    /\ accepted_sections = filter
    /\ section_capacity = Default_section_capacity
    /\ row_capacity = Default_row_capacity
    /\ array_capacity = Default_array_capacity
    /\ last_section = <<>>
    /\ map = BTreeMap_new
    /\ cur_section = Section_with_capacity
    /\ last_name = <<>>
    /\ pc = "read"
    /\ result = [st |-> "none", err |-> NoErr]
    /\ log = <<>>
    /\ previous = <<>>
    /\ ret = NoCall

Init ==
    \/ InitParser(SeqsUpTo(DocFrags, MaxFrags), Filters)
    \/ InitParser(SeqsUpTo(ValFrags, MaxFrags), {<<>>, <<<<<<"A">>>>>>})

Elem == next(input, cur, accepted_sections, last_section)

ElemEvent(e) == Event(e.kind, e.at, e.name, e.vals, <<>>, e.vpos, e.pos)

\* the parser fields after the call of next() that returned e
Advance(e) ==
    /\ cur' = e.pos
    /\ accepted_sections' = e.acc
    /\ last_section' = e.ls
    /\ log' = log \o e.hdrs \o <<ElemEvent(e)>>
    /\ UNCHANGED <<toks, filter, input, section_capacity, row_capacity,
                   array_capacity, previous, ret>>

\* mutant: a header does not start a fresh section
Element_Section_keeps_section(e) ==
    /\ e.kind = "Section"
    /\ map' = IF last_name # <<>>
              THEN BTreeMap_insert(map, last_name[1], cur_section)
              ELSE map
    /\ last_name' = <<e.name>>
    /\ cur_section' = cur_section
    /\ Advance(e)

Element_Section(e) ==
    /\ e.kind = "Section"
    /\ map' = IF last_name # <<>>
              THEN BTreeMap_insert(map, last_name[1], cur_section)
              ELSE map
    /\ last_name' = <<e.name>>
    /\ cur_section' = Section_with_capacity
    /\ Advance(e)

Element_Row(e) ==
    /\ e.kind = "Row"
    /\ cur_section' = [cur_section EXCEPT !.rows = Append(@, e.vals)]
    /\ Advance(e)

Element_Entry(e) ==
    /\ e.kind = "Entry"
    /\ cur_section' = [cur_section EXCEPT
           !.dictionary = BTreeMap_insert(@, e.name, e.vals[1])]
    /\ Advance(e)

Element_Comment(e) ==
    /\ e.kind = "Comment"
    /\ Advance(e)

Element_Err(e) ==
    /\ e.kind = "Err"
    /\ result' = [st |-> IF e.err = Panic_capacity_overflow THEN "panic"
                         ELSE "err",
                  err |-> e.err]
    /\ Advance(e)

\* mutant: the default section is committed under a filter too
Element_None_always_root(e) ==
    /\ e.kind = "None"
    /\ map' = IF last_name # <<>>
              THEN BTreeMap_insert(map, last_name[1], cur_section)
              ELSE BTreeMap_insert(map, Str_root, cur_section)
    /\ result' = [st |-> "ok", err |-> NoErr]
    /\ Advance(e)

Element_None(e) ==
    /\ e.kind = "None"
    /\ map' = IF last_name # <<>>
              THEN BTreeMap_insert(map, last_name[1], cur_section)
              ELSE IF e.acc = <<>>
              THEN BTreeMap_insert(map, Str_root, cur_section)
              ELSE map
    /\ result' = [st |-> "ok", err |-> NoErr]
    /\ Advance(e)

ReadSection ==
    /\ pc = "read"
    /\ Element_Section(Elem)
    /\ UNCHANGED <<pc, result>>

ReadRow ==
    /\ pc = "read"
    /\ Element_Row(Elem)
    /\ UNCHANGED <<map, last_name, pc, result>>

ReadEntry ==
    /\ pc = "read"
    /\ Element_Entry(Elem)
    /\ UNCHANGED <<map, last_name, pc, result>>

ReadComment ==
    /\ pc = "read"
    /\ Element_Comment(Elem)
    /\ UNCHANGED <<map, cur_section, last_name, pc, result>>

ReadErr ==
    /\ pc = "read"
    /\ Element_Err(Elem)
    /\ pc' = "done"
    /\ UNCHANGED <<map, cur_section, last_name>>

ReadEnd ==
    /\ pc = "read"
    /\ Element_None(Elem)
    /\ pc' = "done"
    /\ UNCHANGED <<cur_section, last_name>>

Next ==
    \/ ReadSection
    \/ ReadRow
    \/ ReadEntry
    \/ ReadComment
    \/ ReadErr
    \/ ReadEnd

Spec == Init /\ [][Next]_vars

----------------------------------------------------------------------------
(* Serializing a document and parsing the text again *)

F_s_bs == <<"k","=","\"","a","\\","b","\"","\n">>
F_s_bsq == <<"k","=","\"","a","\\","\"","b","\"","\n">>
F_s_bsbs == <<"k","=","\"","a","\\","\\","b","\"","\n">>
F_s_bsn == <<"k","=","\"","a","\\","n","b","\"","\n">>
F_s_nl == <<"k","=","\"","a","\n","b","\"","\n">>
F_s_a == <<"j","=","\"","a","\"","\n">>
F_f10 == <<"j","=","1",".","0","\n">>
F_f15 == <<"j","=","1",".","5","\n">>
F_arr == <<"k","=","[","1",",","\"","a","\"","]","\n">>
F_dict == <<"k","=","{","j","=","t","r","u","e","}","\n">>
F_row_tab == <<"|","a","\t","b","|","\n">>
F_row_bsp == <<"|","a","\\","|","b","|","\n">>
F_row_2 == <<"|","a","|"," ","|","\n">>

RoundTripFrags ==
    {F_A, F_k1, F_row, F_cmt, F_bad, F_s_bs, F_s_bsq, F_s_bsbs, F_s_bsn,
     F_s_nl, F_s_a, F_f10, F_f15, F_arr, F_dict, F_row_tab, F_row_bsp, F_row_2}

\* the characters of the cells of a document built through the public fields
CellChars == {"a", "|", "\\", "\n", "\t"}

MaxCellLen == 2
MaxCells == 2

CellStrings == UNION {[1..m -> CellChars] : m \in 1..MaxCellLen}

BuiltRows ==
    UNION {[1..m -> {VString(str) : str \in CellStrings}] : m \in 1..MaxCells}

\* Ion::new over a map with the one section A that holds the one row r
BuiltDocument(r) ==
    {[k |-> <<"A">>, v |-> [dictionary |-> BTreeMap_new, rows |-> <<r>>]]}

\* Ion::new(map) for a map built by the caller
InitIon(docs) ==
    /\ toks = <<>>
    /\ input = <<>>
    /\ cur = 1
    /\ filter = <<>>
    /\ accepted_sections = <<>>
    /\ section_capacity = Default_section_capacity
    /\ row_capacity = Default_row_capacity
    /\ array_capacity = Default_array_capacity
    /\ last_section = <<>>
    /\ map \in docs
    /\ cur_section = Section_with_capacity
    /\ last_name = <<>>
    /\ pc = "ion"
    /\ result = [st |-> "none", err |-> NoErr]
    /\ log = <<>>
    /\ previous = <<>>
    /\ ret = NoCall

InitRoundTrip ==
    \/ InitParser(SeqsUpTo(RoundTripFrags, MaxFrags), {<<>>})
    \/ InitIon({BuiltDocument(r) : r \in BuiltRows})

\* a document exists: read() returned Ok(map), or the caller built one
HasIon == pc = "ion" \/ (pc = "done" /\ result.st = "ok")

\* ion.to_string(): Display for Ion
to_string ==
    /\ HasIon
    /\ previous = <<>>
    /\ ret' = Call("to_string", <<>>, <<>>, <<>>, fmt_Ion(map), map)
    /\ pc' = "shown"
    /\ UNCHANGED <<toks, filter, input, cur, accepted_sections,
                   section_capacity, row_capacity, array_capacity,
                   last_section, map, cur_section, last_name, result, log,
                   previous>>

\* text.parse::<Ion>() of the text written: Parser::new, then read() begins
from_str ==
    /\ pc = "shown"
    /\ previous' = <<[result |-> result, map |-> map]>>
    /\ input' = ret.text
    /\ cur' = 1
    /\ accepted_sections' = <<>>
    /\ last_section' = <<>>
    /\ map' = BTreeMap_new
    /\ cur_section' = Section_with_capacity
    /\ last_name' = <<>>
    /\ pc' = "read"
    /\ result' = [st |-> "none", err |-> NoErr]
    /\ log' = <<>>
    /\ UNCHANGED <<toks, filter, section_capacity, row_capacity,
                   array_capacity, ret>>

NextRoundTrip ==
    \/ Next
    \/ to_string
    \/ from_str

SpecRoundTrip == InitRoundTrip /\ [][NextRoundTrip]_vars

----------------------------------------------------------------------------
(* The row accessors of a section *)

\* the closure of rows_without_header: the first cell of the row is a
\* non-empty string of '-' only
first_is_dashes(r) ==
    /\ r # <<>>
    /\ r[1].t = "String"
    /\ r[1].s # <<>>
    /\ \A i \in DOMAIN r[1].s : r[1].s[i] = "-"

\* mutant: a first cell that only starts with '-' marks a header too
rows_without_header_starts_with(section) ==
    IF /\ Len(section.rows) > 1
       /\ section.rows[2] # <<>>
       /\ section.rows[2][1].t = "String"
       /\ section.rows[2][1].s # <<>>
       /\ section.rows[2][1].s[1] = "-"
    THEN SubSeq(section.rows, 3, Len(section.rows))
    ELSE section.rows

rows_without_header(section) ==
    IF Len(section.rows) > 1 /\ first_is_dashes(section.rows[2])
    THEN SubSeq(section.rows, 3, Len(section.rows))
    ELSE section.rows

\* IntoIterator for &Section
iter(section) == rows_without_header(section)

\* the closure of into_iter: the cell at index 1 is a string starting with '-'
second_starts_with_dash(r) ==
    /\ Len(r) >= 2
    /\ r[2].t = "String"
    /\ r[2].s # <<>>
    /\ r[2].s[1] = "-"

\* IntoIterator for Section
into_iter(section) ==
    LET has_header == /\ Len(section.rows) >= 2
                      /\ second_starts_with_dash(section.rows[2])
    IN  IF has_header THEN SubSeq(section.rows, 3, Len(section.rows))
        ELSE section.rows

MaxRows == 3
MaxDashes == 2

SeparatorChars == {"-", "3"}

\* the cells tried in the row at index 1: strings of '-' and '3', an integer
SeparatorCells ==
    {VString(str) : str \in UNION {[1..m -> SeparatorChars] : m \in 0..MaxDashes}}
    \cup {VInteger(<<"3">>)}

SeparatorRows == UNION {[1..m -> SeparatorCells] : m \in 0..MaxCells}

OtherRows == {<<VString(<<"a">>)>>, <<VString(<<"b">>), VString(<<"c">>)>>}

\* the row tables tried: any row at index 1, plain rows around it
RowTables ==
    {<<>>} \cup {<<a>> : a \in OtherRows}
    \cup {<<a, r>> \o rest : a \in OtherRows, r \in SeparatorRows \cup OtherRows,
                             rest \in SeqsUpTo(OtherRows, MaxRows - 2)}

\* a section built by the caller through its public fields
InitSection ==
    /\ toks = <<>>
    /\ input = <<>>
    /\ cur = 1
    /\ filter = <<>>
    /\ accepted_sections = <<>>
    /\ section_capacity = Default_section_capacity
    /\ row_capacity = Default_row_capacity
    /\ array_capacity = Default_array_capacity
    /\ last_section = <<>>
    /\ map = BTreeMap_new
    /\ cur_section \in {[dictionary |-> BTreeMap_new, rows |-> rows] :
                           rows \in RowTables}
    /\ last_name = <<>>
    /\ pc = "section"
    /\ result = [st |-> "none", err |-> NoErr]
    /\ log = <<>>
    /\ previous = <<>>
    /\ ret = NoCall

\* a call on the section: only ret (and pc) change
SectionCall(op, rows, to) ==
    /\ pc = "section"
    /\ ret' = Call(op, <<>>, <<>>, <<>>, rows, {[k |-> <<>>, v |-> cur_section]})
    /\ pc' = to
    /\ UNCHANGED <<toks, filter, input, cur, accepted_sections,
                   section_capacity, row_capacity, array_capacity,
                   last_section, map, cur_section, last_name, result, log,
                   previous>>

\* section.rows_without_header()
Section_rows_without_header ==
    SectionCall("rows_without_header", rows_without_header(cur_section), "section")

\* (&section).into_iter().collect()
Section_iter == SectionCall("iter", iter(cur_section), "section")

\* section.into_iter().collect(): the section is moved into the iterator
Section_into_iter == SectionCall("into_iter", into_iter(cur_section), "moved")

NextSection ==
    \/ Section_rows_without_header
    \/ Section_iter
    \/ Section_into_iter

SpecSection == InitSection /\ [][NextSection]_vars

----------------------------------------------------------------------------
(* Parsing the same text again with capacity hints *)

F_k_arr == <<"k","=","[","1","]","\n">>
F_k_open == <<"k","=","[","\n">>

CapacityFrags == {F_A, F_k1, F_row, F_cmt, F_bad, F_k_arr, F_k_open}

\* the hints tried besides the defaults
Capacities == {<<"0">>, <<"3">>, USIZE_MAX}

\* Parser::new / new_filtered on the text and list of the first parser
Parser_new ==
    /\ pc = "done"
    /\ previous = <<>>
    /\ previous' = <<[result |-> result, map |-> map]>>
    /\ cur' = 1
    /\ accepted_sections' = filter
    /\ section_capacity' = Default_section_capacity
    /\ row_capacity' = Default_row_capacity
    /\ array_capacity' = Default_array_capacity
    /\ last_section' = <<>>
    /\ map' = BTreeMap_new
    /\ cur_section' = [dictionary |-> BTreeMap_new, rows |-> <<>>]
    /\ last_name' = <<>>
    /\ pc' = "new"
    /\ result' = [st |-> "none", err |-> NoErr]
    /\ log' = <<>>
    /\ UNCHANGED <<toks, filter, input, ret>>

with_section_capacity ==
    /\ pc = "new"
    /\ \E n \in Capacities : section_capacity' = n
    /\ UNCHANGED <<toks, filter, input, cur, accepted_sections, row_capacity,
                   array_capacity, last_section, map, cur_section, last_name,
                   pc, result, log, previous, ret>>

with_row_capacity ==
    /\ pc = "new"
    /\ \E n \in Capacities : row_capacity' = n
    /\ UNCHANGED <<toks, filter, input, cur, accepted_sections,
                   section_capacity, array_capacity, last_section, map,
                   cur_section, last_name, pc, result, log, previous, ret>>

with_array_capacity ==
    /\ pc = "new"
    /\ \E n \in Capacities : array_capacity' = n
    /\ UNCHANGED <<toks, filter, input, cur, accepted_sections,
                   section_capacity, row_capacity, last_section, map,
                   cur_section, last_name, pc, result, log, previous, ret>>

\* read() up to its loop: the map and the first Section::with_capacity
read_begin ==
    /\ pc = "new"
    /\ IF capacity_overflow(section_capacity)
       THEN /\ pc' = "done"
            /\ result' = [st |-> "panic", err |-> Panic_capacity_overflow]
            /\ UNCHANGED cur_section
       ELSE /\ pc' = "read"
            /\ cur_section' = Section_with_capacity
            /\ UNCHANGED result
    /\ UNCHANGED <<toks, filter, input, cur, accepted_sections,
                   section_capacity, row_capacity, array_capacity,
                   last_section, map, last_name, log, previous, ret>>

InitCapacity ==
    InitParser(SeqsUpTo(CapacityFrags, MaxFrags), {<<>>, <<<<<<"A">>>>>>})

NextCapacity ==
    \/ Next
    \/ Parser_new
    \/ with_section_capacity
    \/ with_row_capacity
    \/ with_array_capacity
    \/ read_begin

SpecCapacity == InitCapacity /\ [][NextCapacity]_vars

----------------------------------------------------------------------------
(* Byte offsets: the ranges the scanner indexes the input with *)

\* char::len_utf8 of the characters modelled; "U+00E9" and "U+20AC" stand
\* for one character each
len_utf8(c) ==
    CASE c = "U+00E9" -> 2
      [] c = "U+20AC" -> 3
      [] OTHER -> 1

\* the offset CharIndices gives for the character at cursor p
RECURSIVE byte_offset(_, _)
byte_offset(s, p) ==
    IF p <= 1 THEN 0 ELSE byte_offset(s, p - 1) + len_utf8(s[p - 1])

\* str::len
str_len(s) == byte_offset(s, Len(s) + 1)

\* the offsets at which str::is_char_boundary holds
char_boundaries(s) == {byte_offset(s, p) : p \in 1..(Len(s) + 1)}

\* &input[from..to]; taken is FALSE where the code takes no slice
Index(from, to) == [taken |-> TRUE, from |-> from, to |-> to]
NoIndex == [taken |-> FALSE, from |-> 0, to |-> 0]

\* str indexing returns (it panics otherwise): the range is in order and
\* both ends are character boundaries of the input, its end included
index_ok(boundaries, r) ==
    r.taken => /\ r.from <= r.to
               /\ r.from \in boundaries
               /\ r.to \in boundaries

slice_to_inc_index(s, p, ch) ==
    IF p > Len(s) THEN NoIndex
    ELSE IF s[p] = ch THEN Index(byte_offset(s, p), byte_offset(s, p) + 1)
    ELSE LET end == Find(s, p + 1, ch)
         IN  IF end = 0 THEN Index(byte_offset(s, p), str_len(s))
             ELSE Index(byte_offset(s, p), byte_offset(s, end) + 1)

\* mutant: the end of the slice is counted in characters, not in bytes
slice_to_exc_index_counts_chars(s, p, ch) ==
    IF p > Len(s) \/ s[p] = ch THEN NoIndex
    ELSE LET end == Find(s, p + 1, ch)
         IN  IF end = 0 THEN Index(byte_offset(s, p), str_len(s))
             ELSE Index(byte_offset(s, p), byte_offset(s, p) + (end - p))

slice_to_exc_index(s, p, ch) ==
    IF p > Len(s) \/ s[p] = ch THEN NoIndex
    ELSE LET end == Find(s, p + 1, ch)
         IN  IF end = 0 THEN Index(byte_offset(s, p), str_len(s))
             ELSE Index(byte_offset(s, p), byte_offset(s, end))

slice_while_index(s, p, predicate) ==
    IF p > Len(s) \/ s[p] \notin predicate THEN NoIndex
    ELSE Index(byte_offset(s, p), byte_offset(s, WhileEnd(s, p + 1, predicate)))

\* boolean: &self.input[start..]
boolean_index(s, start) == Index(byte_offset(s, start), str_len(s))

\* the slices the scanner takes when its cursor is at p: of a comment, a
\* string, a cell, a key, a number and a boolean
indexes_at(s, p) ==
    {slice_to_inc_index(s, p, "\n"),
     slice_to_exc_index(s, p, "\""),
     slice_to_exc_index(s, p, "|"),
     slice_while_index(s, p, KeyChars),
     slice_while_index(s, p, Digits),
     IF Peek(s, p) \in {"t", "f"} THEN boolean_index(s, p) ELSE NoIndex}

F_open == <<"[","A">>
F_kq_e == <<"k","=","\"","U+00E9">>
F_cell_e == <<"|","a","U+20AC">>
F_cmt_e == <<"#","U+00E9","\n">>
F_tru == <<"k","=","t","r","u">>
F_e == <<"U+00E9">>

MalformedFrags ==
    {F_A, F_open, F_bad, F_kq_e, F_cell_e, F_cmt_e, F_tru, F_e}

InitMalformed ==
    InitParser(SeqsUpTo(MalformedFrags, MaxFrags), {<<>>, <<<<<<"A">>>>>>})

SpecMalformed == InitMalformed /\ [][Next]_vars

----------------------------------------------------------------------------
(* The parser driven as an iterator by its caller *)

MaxCalls == 5

\* the calls of next() made so far
Calls == Cardinality({i \in DOMAIN log : log[i].kind # "Header"})

IterFrags == {F_A, F_B, F_k1, F_row, F_bad, F_nokey}

\* Parser::new / new_filtered, not yet driven
InitIter ==
    /\ toks \in SeqsUpTo(IterFrags, MaxFrags)
    /\ input = Flatten(toks)
    /\ cur = 1
    /\ filter \in Filters
    /\ accepted_sections = filter
    /\ section_capacity = Default_section_capacity
    /\ row_capacity = Default_row_capacity
    /\ array_capacity = Default_array_capacity
    /\ last_section = <<>>
    /\ map = BTreeMap_new
    /\ cur_section = [dictionary |-> BTreeMap_new, rows |-> <<>>]
    /\ last_name = <<>>
    /\ pc = "iter"
    /\ result = [st |-> "none", err |-> NoErr]
    /\ log = <<>>
    /\ previous = <<>>
    /\ ret = NoCall

\* parser.next(), whatever the calls before it returned
Iterator_next ==
    /\ pc = "iter"
    /\ Calls < MaxCalls
    /\ Advance(Elem)
    /\ UNCHANGED <<map, cur_section, last_name, pc, result>>

NextIter == Iterator_next

SpecIter == InitIter /\ [][NextIter]_vars

----------------------------------------------------------------------------
(* The lookups of Ion *)

\* BTreeMap::get as an Option
BTreeMap_lookup(m, key) ==
    IF key \in BTreeMap_keys(m) THEN <<BTreeMap_get(m, key).v>> ELSE <<>>

\* mutant: the key is removed together with every key after it
BTreeMap_remove_split_off(m, key) == {e \in m : str_lt(e.k, key)}

\* the map after BTreeMap::remove
BTreeMap_remove(m, key) == {e \in m : e.k # key}

Ion_get(sections, key) == BTreeMap_lookup(sections, key)

IonError_MissingSection(key) == [kind |-> "MissingSection", name |-> key]

\* Result<&Section, IonError> as the pair of an Option of each
Ion_fetch(sections, key) ==
    IF Ion_get(sections, key) # <<>>
    THEN [val |-> Ion_get(sections, key), err |-> <<>>]
    ELSE [val |-> <<>>, err |-> <<IonError_MissingSection(key)>>]

Section_k1 ==
    [dictionary |-> {[k |-> <<"k">>, v |-> VInteger(<<"1">>)]}, rows |-> <<>>]
Section_row ==
    [dictionary |-> BTreeMap_new, rows |-> <<<<VString(<<"a">>)>>>>]

IonNames == {<<"A">>, <<"B">>, Str_root}
IonKeys == IonNames \cup {<<"C">>}

\* the documents tried: every choice of names, each with one of two sections
IonDocuments ==
    UNION {{ {[k |-> n, v |-> f[n]] : n \in ns} :
               f \in [ns -> {Section_k1, Section_row}] } :
           ns \in SUBSET IonNames}

InitLookup == InitIon(IonDocuments)

\* a call on the document: ret and, for remove, the map change
IonCall(op, key, val, err, sections) ==
    /\ pc = "ion"
    /\ ret' = Call(op, key, val, err, <<>>, map)
    /\ map' = sections
    /\ UNCHANGED <<toks, filter, input, cur, accepted_sections,
                   section_capacity, row_capacity, array_capacity,
                   last_section, cur_section, last_name, pc, result, log,
                   previous>>

get ==
    \E key \in IonKeys : IonCall("get", key, Ion_get(map, key), <<>>, map)

fetch ==
    \E key \in IonKeys :
        IonCall("fetch", key, Ion_fetch(map, key).val, Ion_fetch(map, key).err,
                map)

remove ==
    \E key \in IonKeys :
        IonCall("remove", key, BTreeMap_lookup(map, key), <<>>,
                BTreeMap_remove(map, key))

NextLookup ==
    \/ get
    \/ fetch
    \/ remove

SpecLookup == InitLookup /\ [][NextLookup]_vars

----------------------------------------------------------------------------
(* Rows and comments: a text parsed, then parsed again without its comments *)

F_row_open == <<"|","a","\n">>
F_row_cmt == <<"|","a","|","#","c","\n">>
F_k1_cmt == <<"k","=","1","#","c","\n">>
F_1_line == <<"1","\n">>

LineFrags ==
    {F_A, F_k1, F_row, F_row_open, F_cmt, F_1_line, F_row_cmt, F_k1_cmt,
     F_bad}

\* one line of the text without its comment: a line that starts with '#' is
\* taken out whole, a '#' after the last '|' of a row or after the value of
\* an entry is cut off up to the line break
WithoutComment(line) ==
    LET h == Find(line, 1, "#")
    IN  IF h = 0 THEN line
        ELSE IF h = ws(line, 1) THEN <<>>
        ELSE IF line[1] = "|" /\ Find(line, h, "|") # 0 THEN line
        ELSE Slice(line, 1, h - 1)
             \o (IF line[Len(line)] = "\n" THEN <<"\n">> ELSE <<>>)

RECURSIVE WithoutComments(_)
WithoutComments(lines) ==
    IF lines = <<>> THEN <<>>
    ELSE WithoutComment(Head(lines)) \o WithoutComments(Tail(lines))

\* Parser::new / new_filtered on a text and a list after a first parse, and
\* read() up to its loop
Parser_new_on(text, list) ==
    /\ pc = "done"
    /\ previous = <<>>
    /\ previous' = <<[result |-> result, map |-> map, log |-> log]>>
    /\ input' = text
    /\ cur' = 1
    /\ filter' = list
    /\ accepted_sections' = list
    /\ last_section' = <<>>
    /\ map' = BTreeMap_new
    /\ cur_section' = Section_with_capacity
    /\ last_name' = <<>>
    /\ pc' = "read"
    /\ result' = [st |-> "none", err |-> NoErr]
    /\ log' = <<>>
    /\ UNCHANGED <<toks, section_capacity, row_capacity, array_capacity>>

\* the second parse: the text of the first without its comments
Parser_new_without_comments ==
    /\ Parser_new_on(WithoutComments(toks), filter)
    /\ ret' = Call("without_comments", <<>>, <<>>, <<>>, input, map)

InitLines ==
    InitParser(SeqsUpTo(LineFrags, MaxFrags), {<<>>, <<<<<<"A">>>>>>})

NextLines ==
    \/ Next
    \/ Parser_new_without_comments

SpecLines == InitLines /\ [][NextLines]_vars

----------------------------------------------------------------------------
(* Header names and boolean tokens *)

F_A_lead == <<"[", " ", "A", "]", "\n">>
F_A_trail == <<"[", "A", " ", "]", "\n">>
F_A_both == <<"[", " ", "A", " ", "]", "\n">>
F_k_true == <<"k", "=", "t", "r", "u", "e">>
F_k_false == <<"k", "=", "f", "a", "l", "s", "e">>
F_x1 == <<"x", "=", "1", "\n">>
F_y == <<"y">>

TokenFrags ==
    {F_A, F_A_lead, F_A_trail, F_A_both, F_row, F_cmt, F_k_true, F_k_false,
     F_tru, F_x1, F_y, F_nl}

InitTokens ==
    InitParser(SeqsUpTo(TokenFrags, MaxFrags), {<<>>, <<<<<<"A">>>>>>})

SpecTokens == InitTokens /\ [][Next]_vars

----------------------------------------------------------------------------
(* Integer literals at the limits of i64 *)

F_k_max ==
    <<"k","=","9","2","2","3","3","7","2","0","3","6","8","5","4","7","7","5",
      "8","0","7","\n">>
F_k_over ==
    <<"k","=","9","2","2","3","3","7","2","0","3","6","8","5","4","7","7","5",
      "8","0","8","\n">>
F_k_2_64 ==
    <<"k","=","1","8","4","4","6","7","4","4","0","7","3","7","0","9","5","5",
      "1","6","1","6","\n">>
F_k_zeros ==
    <<"k","=","0","0","9","2","2","3","3","7","2","0","3","6","8","5","4","7",
      "7","5","8","0","7","\n">>
F_j_arr_over ==
    <<"j","=","[","1",",","9","2","2","3","3","7","2","0","3","6","8","5","4",
      "7","7","5","8","0","8","]","\n">>

NumberFrags ==
    {F_A, F_B, F_row, F_cmt, F_k1, F_k_max, F_k_over, F_k_2_64, F_k_zeros,
     F_j_arr_over}

InitNumber ==
    InitParser(SeqsUpTo(NumberFrags, MaxFrags), {<<>>, <<<<<<"A">>>>>>})

SpecNumber == InitNumber /\ [][Next]_vars

----------------------------------------------------------------------------
(* Array literals written over several lines *)

F_arr_11 == <<"k","=","[","1",",","1","]","\n">>
F_arr_nl_open == <<"k","=","[","\n","1",",","1","]","\n">>
F_arr_nl_before_comma == <<"k","=","[","1","\n",",","1","]","\n">>
F_arr_nl_after_comma == <<"k","=","[","1",",","\n","1","]","\n">>
F_arr_nl_close == <<"k","=","[","1",",","1","\n","]","\n">>

ArrayLines ==
    {F_arr_11, F_arr_nl_open, F_arr_nl_before_comma, F_arr_nl_after_comma,
     F_arr_nl_close}

ArrayFrags == ArrayLines \cup {F_A, F_row, F_cmt}

InitArray == InitParser(SeqsUpTo(ArrayFrags, MaxFrags), {<<>>, <<<<<<"A">>>>>>})

SpecArray == InitArray /\ [][Next]_vars

----------------------------------------------------------------------------
(* Line endings: a text parsed, then parsed again with \r\n line breaks *)

F_dict_lines == <<"k","=","{","\n","j","=","1","\n","}","\n">>
F_dict_line == <<"k","=","{","j","=","1","}","\n">>

CrlfFrags == {F_A, F_B, F_k1, F_row, F_cmt, F_bad, F_dict_lines, F_dict_line}

\* the text with every \n replaced by \r\n
RECURSIVE Crlf(_)
Crlf(text) ==
    IF text = <<>> THEN <<>>
    ELSE (IF Head(text) = "\n" THEN <<"\r", "\n">> ELSE <<Head(text)>>)
         \o Crlf(Tail(text))

\* the second parse: the text of the first with \r\n line breaks
Parser_new_crlf ==
    /\ Parser_new_on(Crlf(input), filter)
    /\ ret' = Call("crlf", <<>>, <<>>, <<>>, input, map)

InitCrlf == InitParser(SeqsUpTo(CrlfFrags, MaxFrags), {<<>>, <<<<<<"A">>>>>>})

NextCrlf ==
    \/ Next
    \/ Parser_new_crlf

SpecCrlf == InitCrlf /\ [][NextCrlf]_vars

----------------------------------------------------------------------------
(* Filtering: a text parsed without a list, then parsed again with one *)

F_h1 == <<"[","1","]","\n">>

FilterFrags == {F_A, F_B, F_k1, F_row, F_cmt, F_bad, F_nokey, F_h1}

FilterNames == Names \cup {<<"1">>, Str_root}

\* the accepted lists tried: no name twice
FilterLists ==
    {l \in SeqsUpTo(FilterNames, MaxAccepted) :
        \A i, j \in DOMAIN l : i # j => l[i] # l[j]}

\* the second parse: Parser::new_filtered on the same text
Parser_new_filtered ==
    /\ \E l \in FilterLists : Parser_new_on(input, <<l>>)
    /\ ret' = Call("new_filtered", <<>>, <<>>, <<>>, input, map)

InitFilter == InitParser(SeqsUpTo(FilterFrags, MaxFrags), {<<>>})

NextFilter ==
    \/ Next
    \/ Parser_new_filtered

SpecFilter == InitFilter /\ [][NextFilter]_vars

----------------------------------------------------------------------------
(* Progress of the cursor: every kind of line, values over several lines *)

ProgressFrags ==
    {F_A, F_B, F_k1, F_row, F_row_open, F_cmt, F_bad, F_nokey, F_arr,
     F_arr_nl_close, F_dict_lines}

InitProgress ==
    InitParser(SeqsUpTo(ProgressFrags, MaxFrags), {<<>>, <<<<<<"A">>>>>>})

SpecProgress == InitProgress /\ [][Next]_vars

TypeOK ==
    /\ pc \in {"read", "done", "ion", "shown", "section", "moved", "new",
              "iter"}
    /\ cur \in 1..(Len(input) + 1)
    /\ result.st \in {"none", "ok", "err", "panic"}

----------------------------------------------------------------------------
(* Reading the history *)

Done == pc = "done"
ReturnedOk == Done /\ result.st = "ok"
ReturnedErr == Done /\ result.st = "err"

Filtered == filter # <<>>

HeaderIdx == {i \in DOMAIN log : log[i].kind = "Header"}
HeadersOf(n) == {i \in HeaderIdx : log[i].name = n}
HeaderNames == {log[i].name : i \in HeaderIdx}
SectionIdx == {i \in DOMAIN log : log[i].kind = "Section"}

Max(S) == CHOOSE x \in S : \A y \in S : y <= x
Min(S) == CHOOSE x \in S : \A y \in S : x <= y

\* the working set a header was checked against, and the header's fate by
\* the rules of the filter
WorkingSet(h) == IF h.before = <<>> THEN {} ELSE Range(h.before[1])
Wanted(h) == h.before = <<>> \/ h.name \in WorkingSet(h)
Exhausted(h) == h.before # <<>> /\ h.before[1] = <<>>
Rejected(h) == h.before # <<>> /\ h.before[1] # <<>> /\ h.name \notin WorkingSet(h)

Occurrences(list, n) == Cardinality({i \in DOMAIN list : list[i] = n})

\* the events that follow position i up to the next header or the end
Following(i) ==
    {j \in DOMAIN log : j > i /\ \A m \in (i + 1)..j : log[m].kind # "Header"}

\* the dictionary and rows the entries and rows at the positions R amount to
EntriesOf(R) ==
    {[k |-> log[j].name, v |-> log[j].vals[1]] :
       j \in {j \in R : /\ log[j].kind = "Entry"
                        /\ \A m \in R : (m > j /\ log[m].kind = "Entry")
                                            => log[m].name # log[j].name}}

RECURSIVE RowsFrom(_, _)
RowsFrom(j, R) ==
    IF j > Len(log) THEN <<>>
    ELSE IF j \in R /\ log[j].kind = "Row"
         THEN <<log[j].vals>> \o RowsFrom(j + 1, R)
         ELSE RowsFrom(j + 1, R)

ContentAfter(i) ==
    [dictionary |-> EntriesOf(Following(i)), rows |-> RowsFrom(1, Following(i))]

SectionsNamed(n) == {e \in map : e.k = n}

HasSection(n, sec) == SectionsNamed(n) = {[k |-> n, v |-> sec]}

----------------------------------------------------------------------------
(* Claims *)

\* C1: in an unfiltered parse that returns a document, a section name met in
\* two or more headers has exactly one section in the document, and that
\* section holds exactly the entries and rows that follow the last of these
\* headers up to the next header or the end.
C1_LastOccurrenceWins ==
    (ReturnedOk /\ ~Filtered) =>
        \A n \in HeaderNames :
            Cardinality(HeadersOf(n)) >= 2 =>
                HasSection(n, ContentAfter(Max(HeadersOf(n))))

C1_Witness ==
    /\ ReturnedOk
    /\ ~Filtered
    /\ \E n \in HeaderNames :
          /\ Cardinality(HeadersOf(n)) >= 2
          /\ ContentAfter(Min(HeadersOf(n))).dictionary # {}
          /\ ContentAfter(Min(HeadersOf(n))) # ContentAfter(Max(HeadersOf(n)))
          /\ HasSection(n, ContentAfter(Max(HeadersOf(n))))

\* C2: in a filtered parse whose accepted list names a section exactly once,
\* the document holds under that name the entries and rows of the first
\* header with that name only, and once that header was met the name is in
\* the working set of no later header.
C2_FirstOccurrenceWins ==
    Filtered =>
        \A n \in HeaderNames :
            Occurrences(filter[1], n) = 1 =>
                LET first == Min(HeadersOf(n))
                IN  /\ \A i \in HeaderIdx : i > first => n \notin WorkingSet(log[i])
                    /\ Cardinality({i \in SectionIdx : log[i].name = n}) = 1
                    /\ ReturnedOk => HasSection(n, ContentAfter(first))

C2_Witness ==
    /\ ReturnedOk
    /\ Filtered
    /\ Len(filter[1]) = 2
    /\ \E n \in HeaderNames :
          /\ Occurrences(filter[1], n) = 1
          /\ Cardinality(HeadersOf(n)) >= 2
          /\ ContentAfter(Min(HeadersOf(n))).dictionary # {}
          /\ HasSection(n, ContentAfter(Min(HeadersOf(n))))

\* C3: in a filtered parse, whatever the accepted list (a name may be listed
\* more than once), at most one header of each name is accepted and the
\* document holds under that name the content of its first header.
C3_AtMostOnceForAnyList ==
    Filtered =>
        \A n \in HeaderNames :
            /\ Cardinality({i \in SectionIdx : log[i].name = n}) <= 1
            /\ (ReturnedOk /\ SectionsNamed(n) # {}) =>
                   HasSection(n, ContentAfter(Min(HeadersOf(n))))

\* C4: a parse with an empty accepted list returns Ok and an empty document
\* for every input.
C4_EmptyListAlwaysEmptyDocument ==
    (Done /\ filter = <<<<>>>>) => (result.st = "ok" /\ map = {})

\* the cursor right after the header's ']' (the end of input without one)
AfterHeader(h) ==
    LET close == Find(input, h.at, "]")
    IN  IF close = 0 THEN Len(input) + 1 ELSE close + 1

\* the document the sections produced so far amount to
SectionNames == {log[i].name : i \in SectionIdx}
DocumentSoFar ==
    {[k |-> n, v |-> ContentAfter(Max({i \in SectionIdx : log[i].name = n}))] :
        n \in SectionNames}

\* C5: when a header is met while the working set of a configured filter is
\* empty, next() returns end-of-sequence at once without producing the
\* header, read() returns Ok with the document built so far, and the cursor
\* stays right after that header, whatever follows it.
C5_EarlyExit ==
    \A i \in HeaderIdx :
        Exhausted(log[i]) =>
            /\ i + 1 = Len(log)
            /\ log[i + 1].kind = "None"
            /\ ReturnedOk
            /\ map = DocumentSoFar
            /\ cur = AfterHeader(log[i])

C5_Witness ==
    /\ ReturnedOk
    /\ map # {}
    /\ \E i \in HeaderIdx : Exhausted(log[i])
    /\ toks[Len(toks)] = F_bad
    /\ cur <= Len(input) - Len(F_bad)

\* C6: between a header the filter rejects and the next header nothing is
\* produced: no Entry, Row or Comment and no error comes from these lines,
\* so the document holds nothing of them.
C6_RejectedContentSkipped ==
    /\ \A i \in HeaderIdx :
          Rejected(log[i]) =>
              \A j \in Following(i) : log[j].kind = "None"
    /\ (ReturnedOk /\ Filtered) => map = DocumentSoFar

C6_Witness ==
    /\ ReturnedOk
    /\ map # {}
    /\ \E i \in HeaderIdx :
          /\ Rejected(log[i])
          /\ \E t \in 1..(Len(toks) - 2) :
                /\ toks[t] = F_B
                /\ toks[t + 1] \in {F_bad, F_k1, F_row}
                /\ Len(Flatten(SubSeq(toks, 1, t - 1))) + 1 = log[i].at
          /\ \E j \in HeaderIdx : j > i

\* C7: an input in which no header is met, parsed without a filter, yields
\* exactly one section, named "root", holding all entries and rows; parsed
\* under a filter it yields no section.
C7_ImplicitRootSection ==
    (ReturnedOk /\ HeaderIdx = {}) =>
        IF Filtered THEN map = {}
        ELSE map = {[k |-> Str_root, v |-> ContentAfter(0)]}

C7_Witness ==
    /\ ReturnedOk
    /\ HeaderIdx = {}
    /\ ~Filtered
    /\ ContentAfter(0).dictionary # {}
    /\ ContentAfter(0).rows # <<>>

\* C8: an error returned by read() names the header met last before it, or
\* "unknown" when no header was met.
C8_ErrorNamesLastHeader ==
    ReturnedErr =>
        result.err.section =
            IF HeaderIdx = {} THEN Str_unknown ELSE log[Max(HeaderIdx)].name

C8_Witness ==
    /\ ReturnedErr
    /\ Filtered
    /\ Cardinality(HeaderIdx) >= 2
    /\ Rejected(log[Min(HeaderIdx)])
    /\ result.err.section = <<"A">>

\* the cursor at which the t-th fragment of the input starts
FragStart(t) == Len(Flatten(SubSeq(toks, 1, t - 1))) + 1

ErrIs(desc) == ReturnedErr /\ result.err.desc = desc

\* the last call of next() started its element at fragment t
LastElementAt(t) == log # <<>> /\ log[Len(log)].at = FragStart(t)

FragsFrom(t) == Range(SubSeq(toks, t + 1, Len(toks)))
FragsBetween(t, u) == Range(SubSeq(toks, t + 1, u - 1))

\* C9: an array literal whose ']' never comes before the end of input fails
\* with "Cannot finish an array", a dictionary literal whose '}' never comes
\* with "Cannot finish a dictionary", and an unfinished array inside an
\* unfinished dictionary with the array's error. The literals are made of
\* well-formed elements: integers, commas and line breaks in the array,
\* j=1 entries, commas and line breaks in the dictionary.
C9_UnfinishedCollection ==
    Done =>
        \A t \in DOMAIN toks :
            LastElementAt(t) =>
                /\ (toks[t] = F_ka /\ FragsFrom(t) \subseteq {F_1, F_c, F_nl})
                      => ErrIs("Cannot finish an array")
                /\ (toks[t] = F_kd /\ FragsFrom(t) \subseteq {F_j1, F_c, F_nl})
                      => ErrIs("Cannot finish a dictionary")
                /\ \A u \in (t + 1)..Len(toks) :
                      ( /\ toks[t] = F_kd
                        /\ toks[u] = F_ja
                        /\ FragsBetween(t, u) \subseteq {F_j1, F_c, F_nl}
                        /\ FragsFrom(u) \subseteq {F_1, F_c, F_nl} )
                      => ErrIs("Cannot finish an array")

\* the value of the i-th event is a quoted string that no '"' closes
UnclosedString(i) ==
    /\ log[i].vpos > 0
    /\ Peek(input, log[i].vpos) = "\""
    /\ Find(input, log[i].vpos + 1, "\"") = 0

\* C10 as claimed: a quoted string whose closing '"' is missing before the
\* end of input fails with "Cannot finish string", whatever follows the
\* opening quote.
C10_UnclosedStringFails ==
    Done =>
        \A i \in DOMAIN log :
            UnclosedString(i) => ErrIs("Cannot finish string")

\* C10 as amended: a quoted string whose closing '"' is missing fails with
\* "Cannot finish string" only when the input ends right after the opening
\* quote; when any text follows, the entry is produced with the rest of the
\* input as its string and the cursor is left at the end of input.
C10_UnclosedStringTakesRest ==
    \A i \in DOMAIN log :
        UnclosedString(i) =>
            IF log[i].vpos = Len(input)
            THEN ErrIs("Cannot finish string")
            ELSE /\ log[i].kind = "Entry"
                 /\ log[i].vals =
                        <<VString(SubSeq(input, log[i].vpos + 1, Len(input)))>>
                 /\ log[i].end = Len(input) + 1

C10_Witness ==
    /\ ErrIs("Cannot finish string")
    /\ UnclosedString(Len(log))
    /\ Len(log) > 1

\* the first '"' at or after p that no backslash escapes (0 without one)
RECURSIVE UnescapedQuote(_, _)
UnescapedQuote(s, p) ==
    IF p > Len(s) THEN 0
    ELSE IF s[p] = "\\" THEN UnescapedQuote(s, p + 2)
    ELSE IF s[p] = "\"" THEN p
    ELSE UnescapedQuote(s, p + 1)

\* the text a literal stands for: \\ is a backslash, \n a newline, \" a quote
RECURSIVE Unescaped(_)
Unescaped(str) ==
    IF str = <<>> THEN <<>>
    ELSE IF str[1] = "\\" /\ Len(str) >= 2 /\ str[2] \in {"\\", "n", "\""}
    THEN <<CASE str[2] = "n" -> "\n" [] OTHER -> str[2]>>
         \o Unescaped(SubSeq(str, 3, Len(str)))
    ELSE <<str[1]>> \o Unescaped(Tail(str))

\* C11: a quoted string that starts the value of an entry ends at the next
\* double quote that no backslash escapes, and the entry holds the text
\* between the quotes with \\, \n and \" turned into backslash, newline and
\* double quote.
C11_StringUnescaped ==
    \A i \in DOMAIN log :
        ( /\ log[i].vpos > 0
          /\ Peek(input, log[i].vpos) = "\""
          /\ UnescapedQuote(input, log[i].vpos + 1) > 0 )
        => /\ log[i].kind = "Entry"
           /\ log[i].vals =
                <<VString(Unescaped(SubSeq(input, log[i].vpos + 1,
                             UnescapedQuote(input, log[i].vpos + 1) - 1)))>>
           /\ log[i].end = UnescapedQuote(input, log[i].vpos + 1) + 1

\* the run parsed a text, wrote the document and parsed what it wrote
ParsedTwice == Done /\ previous # <<>> /\ previous[1].result.st = "ok"

\* C12: when a text parses to a document, parsing what the serializer writes
\* for that document returns Ok with an equal document: the same section
\* names, dictionaries (values and their kinds) and rows.
C12_ParseSerializeParse ==
    ParsedTwice => (result.st = "ok" /\ map = previous[1].map)

\* the run serialized a document built by the caller (and parsed the text)
BuiltRun == ret.op = "to_string" /\ ret.before \in {BuiltDocument(r) : r \in BuiltRows}

BuiltRow == BTreeMap_get(ret.before, <<"A">>).v.rows[1]

\* a cell as the plain mode is to write it: pipe, backslash, newline and tab
\* each escaped by a backslash
RECURSIVE EscapedCell(_)
EscapedCell(str) ==
    IF str = <<>> THEN <<>>
    ELSE (CASE str[1] = "|" -> <<"\\", "|">>
            [] str[1] = "\\" -> <<"\\", "\\">>
            [] str[1] = "\n" -> <<"\\", "n">>
            [] str[1] = "\t" -> <<"\\", "t">>
            [] OTHER -> <<str[1]>>)
         \o EscapedCell(Tail(str))

RECURSIVE EscapedCells(_)
EscapedCells(cells) ==
    IF cells = <<>> THEN <<>>
    ELSE <<"|", " ">> \o EscapedCell(cells[1].s) \o <<" ">>
         \o EscapedCells(Tail(cells))

\* C13: a row of string cells that contain pipes, backslashes, newlines or
\* tabs is written with each of these characters escaped, and parsing the
\* text written yields one row with the same number of cells, each equal to
\* the original string.
C13_CellEscapingRoundTrip ==
    BuiltRun =>
        /\ ret.text = <<"[", "A", "]", "\n">> \o EscapedCells(BuiltRow)
                      \o <<"|", "\n", "\n">>
        /\ (Done /\ previous # <<>>) =>
              /\ result.st = "ok"
              /\ BTreeMap_keys(map) = {<<"A">>}
              /\ Len(BTreeMap_get(map, <<"A">>).v.rows) = 1
              /\ Len(BTreeMap_get(map, <<"A">>).v.rows[1]) = Len(BuiltRow)
              /\ BTreeMap_get(map, <<"A">>).v.rows[1] = BuiltRow

\* the section the last call was made on (its rows as they were then)
CalledRows == BTreeMap_get(ret.before, <<>>).v.rows

\* the row at physical index 1 marks a header: its first cell is a
\* non-empty string made only of '-'
HeaderMarked(rows) ==
    /\ Len(rows) >= 2
    /\ Len(rows[2]) >= 1
    /\ rows[2][1].t = "String"
    /\ Len(rows[2][1].s) >= 1
    /\ {rows[2][1].s[i] : i \in DOMAIN rows[2][1].s} = {"-"}

\* rows with the first two taken off
RECURSIVE Drop(_, _)
Drop(rows, n) == IF n = 0 \/ rows = <<>> THEN rows ELSE Drop(Tail(rows), n - 1)

\* C14: rows_without_header returns the rows from physical index 2 onward
\* exactly when the section has at least two rows and the first cell of
\* physical row 1 is a non-empty string of '-' only; in every other case it
\* returns all rows, and the section's rows field is as before the call.
C14_RowsWithoutHeader ==
    ret.op = "rows_without_header" =>
        /\ ret.text = IF HeaderMarked(CalledRows) THEN Drop(CalledRows, 2)
                      ELSE CalledRows
        /\ cur_section.rows = CalledRows

C14_Witness ==
    /\ ret.op = "rows_without_header"
    /\ Len(CalledRows) = 3
    /\ HeaderMarked(CalledRows)
    /\ ret.text = <<CalledRows[3]>>
    /\ cur_section.rows = CalledRows

\* C15: iterating a section, by reference or by value, yields the rows that
\* rows_without_header returns: the first two rows are dropped if and only
\* if the first cell of physical row 1 is a non-empty all-dash string.
C15_IterationSkipsHeader ==
    ret.op \in {"iter", "into_iter"} =>
        ret.text = IF HeaderMarked(CalledRows) THEN Drop(CalledRows, 2)
                   ELSE CalledRows

\* C16: a parser given any section, row and array capacity returns from
\* read() what the parser with the default capacities returned for the same
\* text and list, the same document or the same error, and does not panic.
C16_CapacityHintsHaveNoEffect ==
    (Done /\ previous # <<>>) =>
        /\ result.st # "panic"
        /\ result = previous[1].result
        /\ map = previous[1].map

ElementKinds == {"Section", "Row", "Entry", "Comment", "Err", "None"}

MultiByte == {"U+00E9", "U+20AC"}

C18_EndStaysEnded ==
    \A i, j \in DOMAIN log :
        (i < j /\ log[i].kind = "None") => log[j].kind \in {"None", "Header"}

\* the sections a document holds under a name
StoredUnder(doc, n) == {e.v : e \in {x \in doc : x.k = n}}

\* what was returned is the section stored under the key, None without one
ReturnedStored ==
    IF StoredUnder(ret.before, ret.key) = {} THEN ret.val = <<>>
    ELSE /\ Len(ret.val) = 1
         /\ StoredUnder(ret.before, ret.key) = {ret.val[1]}

\* C19: remove(name) returns the section stored under name (None when
\* there is none) and deletes that key only: afterwards get(name) is None,
\* fetch(name) is MissingSection(name) and every other section is as it
\* was; get and fetch return the stored section (fetch MissingSection(name)
\* without one) and leave the document as it was.
C19_RemoveDeletesOnlyThatKey ==
    /\ ret.op = "remove" =>
          /\ ReturnedStored
          /\ Ion_get(map, ret.key) = <<>>
          /\ Ion_fetch(map, ret.key).err = <<IonError_MissingSection(ret.key)>>
          /\ \A n \in IonKeys \ {ret.key} :
                StoredUnder(map, n) = StoredUnder(ret.before, n)
    /\ ret.op \in {"get", "fetch"} =>
          /\ ReturnedStored
          /\ map = ret.before
    /\ ret.op = "fetch" =>
          ret.err = IF StoredUnder(ret.before, ret.key) = {}
                    THEN <<IonError_MissingSection(ret.key)>> ELSE <<>>

\* a section was removed from a document of three, and a lookup made after
C19_Witness ==
    /\ ret.op = "remove"
    /\ ret.key = <<"B">>
    /\ ret.val = <<Section_row>>
    /\ BTreeMap_keys(ret.before) = IonNames
    /\ BTreeMap_keys(map) = {<<"A">>, Str_root}

\* C20: in an unfiltered parse that returns a document, the entries and
\* rows met before the first header are in the document under "root",
\* whether or not a header follows them.
C20_ContentBeforeFirstHeaderKept ==
    ( /\ ReturnedOk
      /\ ~Filtered
      /\ ContentAfter(0) # [dictionary |-> {}, rows |-> <<>>]
      /\ Str_root \notin HeaderNames )
    => HasSection(Str_root, ContentAfter(0))

\* the cursor right after the line break that ends the line of position p
LineEnd(p) ==
    LET nl == Find(input, p, "\n")
    IN  IF nl = 0 THEN Len(input) + 1 ELSE nl + 1

\* C21: every Row element ends with the line break of the line it started
\* on, whether or not its last cell is closed by a '|': the cursor is then
\* right after that line break and no cell holds a line break, so no
\* following row, entry or header is taken into the row.
C21_RowEndsWithItsLine ==
    \A i \in DOMAIN log :
        log[i].kind = "Row" =>
            /\ log[i].end = LineEnd(log[i].at)
            /\ \A c \in Range(log[i].vals) : "\n" \notin Range(c.s)

\* C22: the text without its full-line comments and without the trailing
\* comments of its rows and entries parses to what the text itself parsed
\* to, the same document or the same error, and no cell of a row holds a
\* comment.
C22_CommentsChangeNothing ==
    /\ (Done /\ ret.op = "without_comments") =>
          /\ result = previous[1].result
          /\ map = previous[1].map
    /\ \A i \in DOMAIN log :
          log[i].kind = "Row" =>
              \A c \in Range(log[i].vals) : "#" \notin Range(c.s)

RECURSIVE trim_start(_)
trim_start(str) ==
    IF str # <<>> /\ str[1] \in White_Space THEN trim_start(Tail(str)) ELSE str

\* the text between the '[' of the i-th event and its ']', trimmed
TrimmedName(i) ==
    trim_start(trim_end(Slice(input, log[i].at + 1,
                              Find(input, log[i].at, "]") - 1)))

\* C23: the name of a header is the text between '[' and ']' without the
\* whitespace around it, so [A], [ A], [A ] and [ A ] all name "A", and
\* under a filter whose working set holds that name the header is accepted
\* and produced under it.
C23_HeaderNameTrimmed ==
    \A i \in HeaderIdx :
        Find(input, log[i].at, "]") # 0 =>
            /\ log[i].name = TrimmedName(i)
            /\ TrimmedName(i) \in WorkingSet(log[i]) =>
                  /\ log[i + 1].kind = "Section"
                  /\ log[i + 1].name = TrimmedName(i)

\* the token of a boolean
BooleanToken(v) == IF v.b THEN Str_true ELSE Str_false

\* C24: an entry gets a Boolean only from the exact token true or false:
\* the text at its value is the token, no further word character follows
\* it (tru, truex, falsey give no Boolean), and the cursor is left right
\* after the 4 or 5 characters of the token.
C24_BooleanExactTokens ==
    \A i \in DOMAIN log :
        (log[i].kind = "Entry" /\ log[i].vals[1].t = "Boolean") =>
            /\ starts_with(input, log[i].vpos, BooleanToken(log[i].vals[1]))
            /\ Peek(input, log[i].vpos + Len(BooleanToken(log[i].vals[1])))
                  \notin KeyChars
            /\ log[i].end = log[i].vpos + Len(BooleanToken(log[i].vals[1]))

\* the digit run that starts at p
DigitRun(p) == Slice(input, p, WhileEnd(input, p, Digits) - 1)

\* the digit run at p is an integer literal: no '.' follows it
IntegerLiteral(p) ==
    /\ Peek(input, p) \in Digits
    /\ Peek(input, WhileEnd(input, p, Digits)) # "."

\* the number a digit run denotes is above 2^63 - 1: without its leading
\* zeros it is longer than the 19 digits of 9223372036854775807, or as long
\* and greater at the first digit where the two differ
AboveI64(ds) ==
    LET n == StripLeadingZeros(ds)
        top == <<9,2,2,3,3,7,2,0,3,6,8,5,4,7,7,5,8,0,7>>
    IN  \/ Len(n) > 19
        \/ /\ Len(n) = 19
           /\ \E i \in 1..19 :
                 /\ \A j \in 1..(i - 1) : DigitVal(n[j]) = top[j]
                 /\ DigitVal(n[i]) > top[i]

\* the section an element belongs to: the header produced last, if any
EnclosingSection ==
    IF SectionIdx = {} THEN Str_unknown ELSE log[Max(SectionIdx)].name

NumberTooLarge == "number too large to fit in target type"

\* C25: an entry whose value is an integer literal above 2^63 - 1, at top
\* level or as an element of an array, makes read() return the error
\* "number too large to fit in target type" with the enclosing section (no
\* entry is produced for it, so nothing wrapped, truncated or floating
\* reaches the document); a literal that fits yields the Integer of its
\* digits.
C25_IntegerOverflowFails ==
    /\ \A i \in DOMAIN log :
          (log[i].vpos > 0 /\ IntegerLiteral(log[i].vpos)) =>
              IF AboveI64(DigitRun(log[i].vpos))
              THEN /\ log[i].kind = "Err"
                   /\ i = Len(log)
                   /\ ReturnedErr
                   /\ result.err.desc = NumberTooLarge
                   /\ result.err.section = EnclosingSection
              ELSE /\ log[i].kind = "Entry"
                   /\ log[i].vals =
                        <<VInteger(StripLeadingZeros(DigitRun(log[i].vpos)))>>
    /\ \A t \in DOMAIN toks :
          (Done /\ LastElementAt(t) /\ toks[t] = F_j_arr_over
             /\ log[Len(log)].kind # "None") =>
              /\ ReturnedErr
              /\ result.err.desc = NumberTooLarge
              /\ result.err.section = EnclosingSection

\* 9223372036854775808 was read in section A after 9223372036854775807 was
\* accepted there
C25_Witness ==
    /\ ReturnedErr
    /\ result.err = [section |-> <<"A">>, desc |-> NumberTooLarge]
    /\ toks = <<F_A, F_k_max, F_k_over>>
    /\ log[Len(log) - 1].kind = "Entry"
    /\ log[Len(log) - 1].vals = <<VInteger(I64_MAX)>>
    /\ map = {}

\* C26: the array [1,1] written with a line break after '[', before or
\* after the ',' or before ']' is read as the array [1,1] is: the entry is
\* produced with the Array of the two integers and the cursor is left
\* right after ']'; no line break makes it an error.
C26_ArrayNewlinesInsignificant ==
    \A i \in DOMAIN log : \A t \in DOMAIN toks :
        ( /\ log[i].at = FragStart(t)
          /\ toks[t] \in ArrayLines
          /\ log[i].kind \in {"Entry", "Err"} ) =>
            /\ log[i].kind = "Entry"
            /\ log[i].vals = <<VArray(<<VInteger(<<"1">>), VInteger(<<"1">>)>>)>>
            /\ log[i].end = FragStart(t) + Len(toks[t]) - 1

\* C27: a text whose line breaks (between elements, after a header, at the
\* end of a row, inside a dictionary literal, inside a skipped section) are
\* all written \r\n parses to what the text with \n line breaks parses to:
\* the same document, or an error with the same section and description.
C27_LineEndingIndependence ==
    (Done /\ ret.op = "crlf") =>
        /\ result = previous[1].result
        /\ map = previous[1].map

\* C28: an unfiltered read() returns a document only when the whole input
\* was consumed: no line (one that starts with a character that begins no
\* element, or an entry whose value is not recognized) ends the parse with
\* Ok while text is left after it.
C28_NoSilentTruncation ==
    (ReturnedOk /\ ~Filtered) => cur = Len(input) + 1

\* the headers the unfiltered parse met have pairwise distinct names
DistinctNames(l) ==
    \A i, j \in DOMAIN l :
        (i # j /\ l[i].kind = "Header" /\ l[j].kind = "Header")
            => l[i].name # l[j].name

\* C29: when a text whose headers have pairwise distinct names parses to a
\* document without a list, then with any list without duplicates it
\* parses to Ok as well, and the document is the unfiltered one restricted
\* to the names of the list: the same sections under these names, no other.
C29_FilterIsProjection ==
    ( /\ Done
      /\ ret.op = "new_filtered"
      /\ previous[1].result.st = "ok"
      /\ DistinctNames(previous[1].log) ) =>
        /\ result.st = "ok"
        /\ map = {e \in previous[1].map : e.k \in Range(filter[1])}

\* every loop of the scanner that turns at position p moves the cursor
\* forward or exits: a line break skipped, a line skipped in a rejected
\* section, a cell of a row, an element of an array, an entry of a
\* dictionary
LoopsAdvance(p) ==
    /\ newline(input, p).ok => newline(input, p).pos > p
    /\ skip_line(input, p) > p
    /\ cell(input, p).pos > p
    /\ value(input, p, last_section).st = "some"
          => value(input, p, last_section).pos > p
    /\ entry(input, p, last_section).st = "some"
          => entry(input, p, last_section).pos > p

\* the elements and errors next() has returned
Produced == {i \in DOMAIN log : log[i].kind \notin {"Header", "None"}}

\* C30: every call of next() returns (an element, an error or the end);
\* a call that returns an element or an error leaves the cursor further on
\* than it found it; every loop of the scanner moves forward or exits (the
\* loops depend on the input only, which is looked at before the first
\* call); so next() returns at most as many elements as the input has
\* characters and read() returns after at most one call more.
C30_TerminationByProgress ==
    /\ pc = "read" => /\ Elem.kind \in ElementKinds
                      /\ Elem.kind # "None" => Elem.pos > cur
    /\ log = <<>> => \A p \in 1..Len(input) : LoopsAdvance(p)
    /\ Cardinality(Produced) <= Len(input)
    /\ Calls <= Len(input) + 1

\* a text of three lines was read to its end in four calls of next()
C30_Witness ==
    /\ ReturnedOk
    /\ Len(toks) = 3
    /\ Cardinality(Produced) = 3
    /\ cur = Len(input) + 1
    /\ \E i \in Produced : log[i].kind = "Comment"

====
